---- MODULE Spec2Model ----
(***************************************************************************)
(* State-machine model of the staged LLVM toolchain build:                 *)
(*   src/build-llvm.py                  (argument set, main stage dispatch) *)
(*   src/tc_build/llvm_build_stages.py  (LLVMStages and build_stage)        *)
(*                                                                         *)
(* A Python string is modelled by the sequence of the words it is made of, *)
(* split where the code looks at it: a workload name at '-'               *)
(* ("kernel-defconfig-slim" is <<"kernel","defconfig","slim">>), a         *)
(* --defines entry at '=' ("K=V" is <<"K","=","V">>).  None and the empty   *)
(* list are both <<>> where the code only tests truthiness; an unset       *)
(* string option is "".                                                    *)
(***************************************************************************)
EXTENDS Integers, Sequences, FiniteSets, TLC

VARIABLES
    args,                  \* the parsed command line (read-only after Init)
    pc,                    \* position of the main script
    cur,                   \* the stage operation being executed ("" when none)
    todo,                  \* external calls the current stage operation still has to make
    lsm,                   \* self.lsm: has the Linux source manager been created
    final,                 \* self.final
    instrumented,          \* self.instrumented
    common_cmake_defines,  \* self.common_cmake_defines
    pgo_targets,           \* profiling()'s local list after the full/slim reconciliation
    warnings,              \* number of full/slim warnings printed so far
    builders,              \* every Builder configured so far, in order
    built,                 \* build directories whose build() has returned in this process
    merged,                \* instrumented build directories whose profiles were merged
    ctrace,                \* steps of LLVMStages.__init__ performed, in order
    ops,                   \* methods of `stages` the main script has called, in order
    trace                  \* stage headers, external calls and exits, in order

vars == <<args, pc, cur, todo, lsm, final, instrumented, common_cmake_defines,
          pgo_targets, warnings, builders, built, merged, ctrace, ops, trace>>

\* Longest --pgo list the workload runs are started with.
MaxPgoLen == 2

\* Longest --pgo list the kernel-workload runs are started with.
MaxKernelPgoLen == 4

Range(s) == {s[i] : i \in 1..Len(s)}

SeqsUpTo(S, n) == UNION {[1..k -> S] : k \in 0..n}

------------------------------------------------------------------------------
\* Python dictionaries: functions from keys to values.

EmptyDict == [k \in {} |-> <<>>]

\* d.update(e)
DictUpdate(d, e) ==
    [k \in (DOMAIN d) \cup (DOMAIN e) |-> IF k \in DOMAIN e THEN e[k] ELSE d[k]]

\* d[k] = v
DictSet(d, k, v) ==
    [x \in (DOMAIN d) \cup {k} |-> IF x = k THEN v ELSE d[x]]

\* A one-word string.
Str(w) == <<w>>

------------------------------------------------------------------------------
\* The command line.

KernelConfigs == {"defconfig", "allmodconfig", "allyesconfig"}

\* choices of --pgo
PgoChoices ==
    {<<"kernel", c>> : c \in KernelConfigs}
        \cup {<<"kernel", c, "slim">> : c \in KernelConfigs}
        \cup {<<"llvm">>}

\* choices of --stage; "" is an absent --stage
StageChoices ==
    {"bootstrap", "instrumentation", "profiling", "csinstrumentation", "csprofiling", "final"}

\* choices of --build-type; "" is an absent --build-type
BuildTypeChoices == {"Release", "Debug", "RelWithDebInfo", "MinSizeRel"}

\* choices of --lto; "" is an absent --lto
LtoChoices == {"thin", "full"}

\* default of --vendor-string
DefaultVendor == Str("ClangBuiltLinux")

\* The options that do not steer the stage dispatch, at their defaults.
DefaultConfig ==
    [build_type |-> "", defines |-> <<>>, assertions |-> FALSE,
     vendor_string |-> DefaultVendor, lto |-> "", targets |-> <<>>, projects |-> <<>>,
     llvm_folder |-> "", linux_folder |-> "", no_ccache |-> FALSE, no_update |-> FALSE]

\* --defines lists the configuration runs are started with.
DefineLists ==
    { <<>>,
      << <<"CMAKE_C_FLAGS", "=", "-O2">> >>,
      << <<"CMAKE_BUILD_TYPE", "=", "Debug">> >>,
      << <<"CLANG_VENDOR", "=", "Mine">>, <<"LLVM_PARALLEL_LINK_JOBS", "=", "A", "=", "B">> >>,
      << <<"LLVM_ENABLE_LTO", "=", "Thin">>, <<"LLVM_PROFDATA_FILE", "=", "mine.profdata">> >>,
      << <<"LLD_VENDOR", "=", "A">>, <<"LLD_VENDOR", "=", "B">> >>,
      << <<"LLVM_CCACHE_BUILD">> >> }

\* State of a folder given with --llvm-folder / --linux-folder ("" is not given).
LlvmFolders == {"", "ok", "missing"}
LinuxFolders == {"", "ok", "missing", "no_makefile", "old"}

ConfigChoices ==
    [build_type : {"", "Release"}, defines : DefineLists, assertions : BOOLEAN,
     vendor_string : {DefaultVendor, <<>>}, lto : {"", "thin"},
     targets : {<<>>}, projects : {<<>>},
     llvm_folder : {""}, linux_folder : {""}, no_ccache : {FALSE}, no_update : {FALSE}]

SourceChoices ==
    [build_type : {""}, defines : {<<>>}, assertions : {FALSE},
     vendor_string : {DefaultVendor}, lto : {""},
     targets : {<<>>, <<"X86">>, <<"AArch64", "Bogus">>},
     projects : {<<>>, <<"clang", "lld">>, <<"clang", "bogus">>},
     llvm_folder : LlvmFolders, linux_folder : LinuxFolders, no_ccache : {FALSE},
     no_update : BOOLEAN]

MkArgs(pgo, cspgo, bolt, full, s1, stage, c) ==
    [pgo |-> pgo, cspgo |-> cspgo, bolt |-> bolt, full_toolchain |-> full,
     build_stage1_only |-> s1, stage |-> stage,
     build_type |-> c.build_type, defines |-> c.defines, assertions |-> c.assertions,
     vendor_string |-> c.vendor_string, lto |-> c.lto, targets |-> c.targets,
     projects |-> c.projects, llvm_folder |-> c.llvm_folder,
     linux_folder |-> c.linux_folder, no_ccache |-> c.no_ccache, no_update |-> c.no_update]

\* --pgo and --build-stage1-only are in one mutually exclusive group (opt_options).
Exclusive(pgo, s1) == ~(pgo # <<>> /\ s1)

\* Every stage-dispatch input over no or one workload, the other options at their
\* defaults.
StagingArgs ==
    {MkArgs(p, cs, b, f, s1, st, DefaultConfig) :
        p \in SeqsUpTo(PgoChoices, 1), cs \in BOOLEAN, b \in BOOLEAN,
        f \in BOOLEAN, s1 \in BOOLEAN, st \in StageChoices \cup {""}}

\* Every --pgo list up to the bound, in any order and with repetitions, in full
\* runs and in runs of a profiling stage alone.
WorkloadArgs ==
    {MkArgs(p, cs, FALSE, FALSE, FALSE, st, DefaultConfig) :
        p \in SeqsUpTo(PgoChoices, MaxPgoLen), cs \in BOOLEAN,
        st \in {"", "profiling", "csprofiling"}}

\* The configuration options, over a few stage-dispatch inputs.
ConfigPgo == {<<>>, <<Str("llvm")>>, << <<"kernel", "defconfig">> >>}

ConfigArgs ==
    {MkArgs(p, cs, FALSE, FALSE, s1, st, c) :
        p \in ConfigPgo, cs \in BOOLEAN, s1 \in BOOLEAN,
        st \in {"", "final", "profiling"}, c \in ConfigChoices}

\* The source-tree and target options, over a few stage-dispatch inputs.
SourceArgs ==
    {MkArgs(p, FALSE, b, f, FALSE, "", c) :
        p \in ConfigPgo, b \in BOOLEAN, f \in BOOLEAN, c \in SourceChoices}

ArgsSet ==
    {a \in StagingArgs \cup WorkloadArgs \cup ConfigArgs \cup SourceArgs :
        Exclusive(a.pgo, a.build_stage1_only)}

------------------------------------------------------------------------------
\* Builders and tools (tc_build.llvm, tc_build.kernel, tc_build.tools).

NoBuilder == [cls |-> "None"]

NoTools == [kind |-> "none", dir |-> "", clang_tblgen |-> "", llvm_tblgen |-> "", llvm_bolt |-> ""]

\* HostTools()
HostTools == [kind |-> "host", dir |-> "", clang_tblgen |-> "", llvm_tblgen |-> "", llvm_bolt |-> ""]

\* StageTools(d / 'bin')
StageTools(d) ==
    [kind |-> "stage", dir |-> d, clang_tblgen |-> d, llvm_tblgen |-> d, llvm_bolt |-> d]

\* A freshly constructed Builder of class cls, created by the stage operation `by`.
NewBuilder(cls, by) ==
    [cls |-> cls, by |-> by, source |-> "", build |-> "", tools |-> NoTools,
     targets |-> <<>>, projects |-> IF cls = "LLVMBootstrapBuilder" THEN <<"clang", "lld">> ELSE <<>>,
     common |-> EmptyDict, cmake_defines |-> EmptyDict,
     build_targets |-> <<>>, ccache |-> FALSE, bolt |-> FALSE,
     toolchain_prefix |-> "", matrix |-> EmptyDict]

\* LLVMSourceManager.default_targets() / default_projects()
default_targets == <<"AArch64", "X86">>
default_projects == <<"clang", "lld">>

\* LLVMBuilder.validate_targets(): raises for a target LLVM does not have.
KnownTargets == {"AArch64", "ARM", "X86"}
validate_targets_raises(targets) == \E t \in Range(targets) : t \notin KnownTargets

\* LLVMBuilder.host_target() / host_target_is_enabled()
host_target == "X86"
host_target_is_enabled(b) == "all" \in Range(b.targets) \/ host_target \in Range(b.targets)

------------------------------------------------------------------------------
\* Events of the run.

Ev(ev, stage, dir, op) == [ev |-> ev, stage |-> stage, dir |-> dir, op |-> op]

\* An external call a stage operation makes on Builder b.
Call(b, op) == [cls |-> b.cls, dir |-> b.build, op |-> op]

------------------------------------------------------------------------------
\* LLVMStages.__init__

\* 'kernel' in x
IsKernelWorkload(x) == "kernel" \in Range(x)

\* The condition as it would be without `args.bolt or`.
NeedsLinuxPgoOnly(a) == \E x \in Range(a.pgo) : IsKernelWorkload(x)

\* The condition as it would be without the kernel workloads.
NeedsLinuxBoltOnly(a) == a.bolt

\* args.bolt or (args.pgo and [x for x in args.pgo if 'kernel' in x])
NeedsLinux(a) == a.bolt \/ \E x \in Range(a.pgo) : IsKernelWorkload(x)

\* define.split('=', 1)
FirstEq(d) == IF \E i \in 1..Len(d) : d[i] = "="
              THEN CHOOSE i \in 1..Len(d) : d[i] = "=" /\ \A j \in 1..(i - 1) : d[j] # "="
              ELSE 0

\* The split as it would be if an entry without '=' were read as KEY with an empty value.
Split1Lenient(d) ==
    IF FirstEq(d) = 0 THEN <<d, <<>> >>
    ELSE <<SubSeq(d, 1, FirstEq(d) - 1), SubSeq(d, FirstEq(d) + 1, Len(d))>>

Split1(d) == IF FirstEq(d) = 0 THEN <<d>>
             ELSE <<SubSeq(d, 1, FirstEq(d) - 1), SubSeq(d, FirstEq(d) + 1, Len(d))>>

\* dict(pairs) raises ValueError on an element that is not a pair
DictRaises(defines) == \E i \in 1..Len(defines) : Len(Split1(defines[i])) # 2

\* dict(pairs): a later pair overrides an earlier one with the same key
RECURSIVE DictOf(_)
DictOf(defines) ==
    IF defines = <<>> THEN EmptyDict
    ELSE LET n == Len(defines)
             kv == Split1(defines[n])
         IN DictSet(DictOf(SubSeq(defines, 1, n - 1)), kv[1], kv[2])

\* The steps of __init__ in order, each with whether it raises.
InitSteps(a) ==
    (IF NeedsLinux(a)
     THEN IF a.linux_folder # ""
          THEN << [step |-> "linux_validate", raises |-> a.linux_folder # "ok"] >>
          ELSE << [step |-> "linux_prepare", raises |-> FALSE] >>
     ELSE <<>>)
    \o (IF a.llvm_folder # ""
        THEN << [step |-> "llvm_validate", raises |-> a.llvm_folder # "ok"] >>
        ELSE <<>>)
    \o << [step |-> "llvm_download", raises |-> FALSE] >>
    \o (IF ~(a.llvm_folder # "" \/ a.no_update)
        THEN << [step |-> "llvm_update", raises |-> FALSE] >>
        ELSE <<>>)
    \o << [step |-> "host_tools", raises |-> FALSE],
          [step |-> "final_builder", raises |-> FALSE] >>
    \o (IF a.targets # <<>>
        THEN << [step |-> "validate_targets", raises |-> validate_targets_raises(a.targets)] >>
        ELSE <<>>)
    \o << [step |-> "projects", raises |-> FALSE],
          [step |-> "defines", raises |-> a.defines # <<>> /\ DictRaises(a.defines)] >>

\* Construction as it would be if a failure of validate_targets() were ignored.
FirstRaiseButTargets(steps) ==
    LET R(i) == steps[i].raises /\ steps[i].step # "validate_targets"
    IN IF \E i \in 1..Len(steps) : R(i)
       THEN CHOOSE i \in 1..Len(steps) : R(i) /\ \A j \in 1..(i - 1) : ~R(j)
       ELSE 0

\* Index of the first step that raises, 0 if none does.
FirstRaise(steps) ==
    IF \E i \in 1..Len(steps) : steps[i].raises
    THEN CHOOSE i \in 1..Len(steps) : steps[i].raises /\ \A j \in 1..(i - 1) : ~steps[j].raises
    ELSE 0

\* LLVMBuilder if args.full_toolchain else LLVMSlimBuilder
def_llvm_builder_cls == IF args.full_toolchain THEN "LLVMBuilder" ELSE "LLVMSlimBuilder"

\* self.final as it would be if --full-toolchain were tested before the explicit lists.
InitFinalFullFirst(a) ==
    [NewBuilder(IF a.full_toolchain THEN "LLVMBuilder" ELSE "LLVMSlimBuilder", "final")
        EXCEPT !.source = "llvm_folder",
               !.targets = IF a.full_toolchain THEN <<"all">>
                           ELSE IF a.targets # <<>> THEN a.targets ELSE default_targets,
               !.projects = IF a.full_toolchain THEN <<"all">>
                            ELSE IF a.projects # <<>> THEN a.projects ELSE default_projects]

\* self.final as __init__ leaves it
InitFinal(a) ==
    [NewBuilder(IF a.full_toolchain THEN "LLVMBuilder" ELSE "LLVMSlimBuilder", "final")
        EXCEPT !.source = "llvm_folder",
               !.targets = IF a.targets # <<>> THEN a.targets
                           ELSE IF a.full_toolchain THEN <<"all">> ELSE default_targets,
               !.projects = IF a.projects # <<>> THEN a.projects
                            ELSE IF a.full_toolchain THEN <<"all">> ELSE default_projects]

\* The common map as it would be if the --defines entries were applied first.
InitDefinesUserFirst(a) ==
    LET d0 == IF a.defines # <<>> THEN DictOf(a.defines) ELSE EmptyDict
        d1 == IF a.assertions
              THEN DictSet(d0, Str("LLVM_ENABLE_ASSERTIONS"), Str("ON"))
              ELSE d0
    IN IF a.vendor_string # <<>>
       THEN DictSet(DictSet(d1, Str("CLANG_VENDOR"), a.vendor_string),
                    Str("LLD_VENDOR"), a.vendor_string)
       ELSE d1

\* The common map as it would be if --lto were recorded in it.
InitDefinesWithLto(a) ==
    LET d1 == IF a.assertions
              THEN DictSet(EmptyDict, Str("LLVM_ENABLE_ASSERTIONS"), Str("ON"))
              ELSE EmptyDict
        d2 == IF a.vendor_string # <<>>
              THEN DictSet(DictSet(d1, Str("CLANG_VENDOR"), a.vendor_string),
                           Str("LLD_VENDOR"), a.vendor_string)
              ELSE d1
        d3 == IF a.lto # "" THEN DictSet(d2, Str("LLVM_ENABLE_LTO"), Str(a.lto)) ELSE d2
    IN IF a.defines # <<>> THEN DictUpdate(d3, DictOf(a.defines)) ELSE d3

\* self.common_cmake_defines as __init__ leaves it
InitDefines(a) ==
    LET d1 == IF a.assertions
              THEN DictSet(EmptyDict, Str("LLVM_ENABLE_ASSERTIONS"), Str("ON"))
              ELSE EmptyDict
        d2 == IF a.vendor_string # <<>>
              THEN DictSet(DictSet(d1, Str("CLANG_VENDOR"), a.vendor_string),
                           Str("LLD_VENDOR"), a.vendor_string)
              ELSE d1
    IN IF a.defines # <<>> THEN DictUpdate(d2, DictOf(a.defines)) ELSE d2

Init ==
    /\ args \in ArgsSet
    /\ pc = "L490"
    /\ cur = ""
    /\ todo = <<>>
    /\ lsm = FALSE
    /\ final = NoBuilder
    /\ instrumented = NoBuilder
    /\ common_cmake_defines = EmptyDict
    /\ pgo_targets = <<>>
    /\ warnings = 0
    /\ builders = <<>>
    /\ built = {}
    /\ merged = {}
    /\ ctrace = <<>>
    /\ ops = <<>>
    /\ trace = <<>>

\* stages = LLVMStages(args, src_folder, build_folder, DEFAULT_KERNEL_FOR_PGO)
Construct ==
    /\ pc = "L490"
    /\ LET steps == InitSteps(args)
           r == FirstRaise(steps)
       IN IF r = 0
          THEN /\ ctrace' = [i \in 1..Len(steps) |-> steps[i].step]
               /\ lsm' = NeedsLinux(args)
               /\ final' = InitFinal(args)
               /\ common_cmake_defines' = InitDefines(args)
               /\ pc' = "L493"
               /\ trace' = trace
          ELSE /\ ctrace' = [i \in 1..r |-> steps[i].step]
               /\ pc' = "aborted"
               /\ trace' = Append(trace, Ev("raise", "", "", steps[r].step))
               /\ UNCHANGED <<lsm, final, common_cmake_defines>>
    /\ UNCHANGED <<args, ops, cur, todo, instrumented, pgo_targets, warnings, builders, built, merged>>

------------------------------------------------------------------------------
\* LLVMStages: configuration of Builders.

\* configure_llvm_builder as it would be without the assignment of the final Builder's
\* targets and projects.
ConfigureKeepLists(instance, builddir, tools) ==
    LET b == [instance EXCEPT !.source = "llvm_folder",
                              !.build = builddir,
                              !.common = common_cmake_defines,
                              !.cmake_defines = DictUpdate(@, common_cmake_defines)]
    IN IF tools # ""
       THEN [b EXCEPT !.tools = StageTools(tools)]
       ELSE [b EXCEPT !.tools = HostTools]

\* LLVMStages.configure_llvm_builder(instance, builddir, tools); tools = "" is tools=None
configure_llvm_builder(instance, builddir, tools) ==
    LET b == [instance EXCEPT !.source = "llvm_folder",
                              !.build = builddir,
                              !.common = common_cmake_defines,
                              !.cmake_defines = DictUpdate(@, common_cmake_defines)]
    IN IF tools # ""
       THEN [b EXCEPT !.tools = StageTools(tools),
                      !.targets = final.targets,
                      !.projects = final.projects]
       ELSE [b EXCEPT !.tools = HostTools]

\* update_defines as it would be with the flag keys set unconditionally.
UpdateDefinesOverwrite(d, build_type) ==
    LET d2 == DictSet(DictSet(d, Str("CMAKE_C_FLAGS"), <<>>), Str("CMAKE_CXX_FLAGS"), <<>>)
    IN IF build_type # "" THEN DictSet(d2, Str("CMAKE_BUILD_TYPE"), Str(build_type)) ELSE d2

\* update_defines as it would be with the loop over the first flag key only.
UpdateDefinesFirstFlag(d, build_type) ==
    LET d1 == IF Str("CMAKE_C_FLAGS") \notin DOMAIN d
              THEN DictSet(d, Str("CMAKE_C_FLAGS"), <<>>) ELSE d
    IN IF build_type # "" THEN DictSet(d1, Str("CMAKE_BUILD_TYPE"), Str(build_type)) ELSE d1

\* update_defines as it would be if the build type, like the flags, were set only
\* when the key is absent.
UpdateDefinesKeepUser(d, build_type) ==
    LET d1 == IF Str("CMAKE_C_FLAGS") \notin DOMAIN d
              THEN DictSet(d, Str("CMAKE_C_FLAGS"), <<>>) ELSE d
        d2 == IF Str("CMAKE_CXX_FLAGS") \notin DOMAIN d1
              THEN DictSet(d1, Str("CMAKE_CXX_FLAGS"), <<>>) ELSE d1
    IN IF build_type # "" /\ Str("CMAKE_BUILD_TYPE") \notin DOMAIN d2
       THEN DictSet(d2, Str("CMAKE_BUILD_TYPE"), Str(build_type)) ELSE d2

\* LLVMStages.update_defines, on the dictionary
UpdateDefines(d, build_type) ==
    LET d1 == IF Str("CMAKE_C_FLAGS") \notin DOMAIN d
              THEN DictSet(d, Str("CMAKE_C_FLAGS"), <<>>) ELSE d
        d2 == IF Str("CMAKE_CXX_FLAGS") \notin DOMAIN d1
              THEN DictSet(d1, Str("CMAKE_CXX_FLAGS"), <<>>) ELSE d1
    IN IF build_type # "" THEN DictSet(d2, Str("CMAKE_BUILD_TYPE"), Str(build_type)) ELSE d2

\* choices[cspgo][self.args.full_toolchain]
InstrumentedCls(cspgo, full) ==
    IF cspgo
    THEN IF full THEN "LLVMCSPGOInstrumentedBuilder" ELSE "LLVMSlimCSPGOInstrumentedBuilder"
    ELSE IF full THEN "LLVMInstrumentedBuilder" ELSE "LLVMSlimInstrumentedBuilder"

\* The choice as it would be if it ignored cspgo.
InstrumentationDirPlain(cspgo) == "instrumentation"

\* self.cspgo_instrumentation_dir if cspgo else self.instrumentation_dir
InstrumentationDir(cspgo) == IF cspgo THEN "cspgo_instrumentation" ELSE "instrumentation"

\* The choice as it would be if both profiling stages built in the profiling directory.
ProfilingDirPlain(cspgo) == "profiling"

\* (self.profiling_dir, ...), (self.cspgo_profiling_dir, ...)
ProfilingDir(cspgo) == IF cspgo THEN "cspgo_profiling" ELSE "profiling"

\* setup_instrumentation as it would be if it ignored its cspgo argument.
setup_instrumentation_plain(cspgo, by) ==
    configure_llvm_builder(
        [NewBuilder(InstrumentedCls(FALSE, args.full_toolchain), by)
            EXCEPT !.build_targets = <<IF args.full_toolchain THEN "all" ELSE "distribution">>],
        InstrumentationDir(FALSE), "bootstrap")

\* LLVMStages.setup_instrumentation(cspgo), called from the operation `by`
setup_instrumentation(cspgo, by) ==
    configure_llvm_builder(
        [NewBuilder(InstrumentedCls(cspgo, args.full_toolchain), by)
            EXCEPT !.build_targets = <<IF args.full_toolchain THEN "all" ELSE "distribution">>],
        InstrumentationDir(cspgo), "bootstrap")

\* The profile path as it would be if always taken from the plain instrumentation stage.
ProfilePathPlain(b) == <<"instrumentation", "profdata">>

\* Path(self.instrumented.profiles_output_path, self.instrumented.final_name)
ProfilePath(b) == <<b.build, "profdata">>

------------------------------------------------------------------------------
\* profiling(): the full/slim reconciliation of the kernel workloads.

\* 'kernel-' in s
HasKernelDash(s) == \E i \in 1..(Len(s) - 1) : s[i] = "kernel"

\* s.replace('kernel-', '')
RECURSIVE StripKernel(_)
StripKernel(s) ==
    IF Len(s) <= 1 THEN s
    ELSE IF Head(s) = "kernel" THEN StripKernel(Tail(s))
    ELSE <<Head(s)>> \o StripKernel(Tail(s))

\* The comprehension as it would be without `if 'kernel-' in s`.
KernelTargetsUnfiltered(pgo) == [i \in 1..Len(pgo) |-> StripKernel(pgo[i])]

\* [s.replace('kernel-', '') for s in self.args.pgo if 'kernel-' in s]
KernelTargets(pgo) ==
    LET k == SelectSeq(pgo, HasKernelDash)
    IN [i \in 1..Len(k) |-> StripKernel(k[i])]

\* l.remove(x): removes the first occurrence
ListRemove(l, x) ==
    LET i == CHOOSE i \in 1..Len(l) : l[i] = x /\ \A j \in 1..(i - 1) : l[j] # x
    IN SubSeq(l, 1, i - 1) \o SubSeq(l, i + 1, Len(l))

\* The loop as it would be if it removed the slim entry of a conflicting pair.
RECURSIVE ReconcileDropSlim(_, _, _)
ReconcileDropSlim(l, i, w) ==
    IF i > Len(l) THEN [targets |-> l, warned |-> w]
    ELSE IF "slim" \notin Range(l[i]) THEN ReconcileDropSlim(l, i + 1, w)
    ELSE IF Str(l[i][1]) \in Range(l)
         THEN ReconcileDropSlim(ListRemove(l, l[i]), i, w + 1)
         ELSE ReconcileDropSlim(l, i + 1, w)

\* The loop `for pgo_target in pgo_targets`, from position i on: the list iterator
\* holds an index, and the body removes from the list it iterates over.
RECURSIVE ReconcileFrom(_, _, _)
ReconcileFrom(l, i, w) ==
    IF i > Len(l) THEN [targets |-> l, warned |-> w]
    ELSE IF "slim" \notin Range(l[i]) THEN ReconcileFrom(l, i + 1, w)
    ELSE LET config_target == Str(l[i][1])
         IN IF config_target \in Range(l)
            THEN ReconcileFrom(ListRemove(l, config_target), i + 1, w + 1)
            ELSE ReconcileFrom(l, i + 1, w)

Reconcile(pgo) == ReconcileFrom(KernelTargets(pgo), 1, 0)

\* llvm_targets of one item of pgo_targets
KernelLlvmTargets(item, inst) ==
    IF Len(item) = 2
    THEN IF host_target_is_enabled(inst) THEN <<host_target>> ELSE SubSeq(final.targets, 1, 1)
    ELSE IF "all" \in Range(final.targets) THEN default_targets
    ELSE final.targets

\* kernel_builder.matrix after the loop over pgo_targets
RECURSIVE KernelMatrix(_, _)
KernelMatrix(items, inst) ==
    IF items = <<>> THEN EmptyDict
    ELSE LET n == Len(items)
         IN DictSet(KernelMatrix(SubSeq(items, 1, n - 1), inst),
                    items[n][1], KernelLlvmTargets(items[n], inst))

\* hasattr(pgo_builder, 'configure') and callable(pgo_builder.configure)
HasConfigure(b) == b.cls # "LLVMKernelBuilder"

------------------------------------------------------------------------------
\* The main script's stage dispatch.

\* not args.stage or args.stage == s
StageIs(s) == args.stage = "" \/ args.stage = s

\* Line 493 as it would be without `not args.stage or`.
RunsBootstrapOnRequest == ~args.build_stage1_only /\ args.stage = "bootstrap"

\* line 493: (use_bootstrap := not args.build_stage1_only) and (not args.stage or ...)
RunsBootstrap == ~args.build_stage1_only /\ StageIs("bootstrap")

\* Lines 499 and 505 as they would be if the plain stage ran only without cspgo.
RunsInstrumentationEither(cspgo) ==
    /\ args.pgo # <<>>
    /\ IF cspgo THEN args.cspgo /\ StageIs("csinstrumentation")
       ELSE ~args.cspgo /\ StageIs("instrumentation")

\* Lines 504-508 as they would be outside `if args.pgo:`.
RunsInstrumentationCsAlone(cspgo) ==
    IF cspgo THEN args.cspgo /\ StageIs("csinstrumentation")
    ELSE args.pgo # <<>> /\ StageIs("instrumentation")

\* lines 498-508: the instrumentation and profiling calls, plain and context-sensitive
RunsInstrumentation(cspgo) ==
    /\ args.pgo # <<>>
    /\ IF cspgo THEN args.cspgo /\ StageIs("csinstrumentation") ELSE StageIs("instrumentation")

\* Lines 501 and 507 as they would be outside `if args.pgo:`.
RunsProfilingAlways(cspgo) ==
    IF cspgo THEN args.cspgo /\ StageIs("csprofiling") ELSE StageIs("profiling")

RunsProfiling(cspgo) ==
    /\ args.pgo # <<>>
    /\ IF cspgo THEN args.cspgo /\ StageIs("csprofiling") ELSE StageIs("profiling")

\* line 509
RunsFinal == StageIs("final")

\* The condition under which the call at position p of the main script is made.
RunsStage(p) ==
    CASE p = "L493" -> RunsBootstrap
      [] p = "L499" -> RunsInstrumentation(FALSE)
      [] p = "L501" -> RunsProfiling(FALSE)
      [] p = "L505" -> RunsInstrumentation(TRUE)
      [] p = "L507" -> RunsProfiling(TRUE)
      [] p = "L509" -> RunsFinal
      [] OTHER -> FALSE

CallSites == {"L493", "L499", "L501", "L505", "L507", "L509"}

\* The statement order as it would be with the profiling call before the instrumentation call.
NextPosProfilingFirst(p) ==
    CASE p = "L493" -> "L496"
      [] p = "L496" -> "L501"
      [] p = "L501" -> "L499"
      [] p = "L499" -> "L505"
      [] p = "L505" -> "L507"
      [] p = "L507" -> "L509"
      [] p = "L509" -> "L515"
      [] OTHER -> "done"

\* The statement after the one at position p.
NextPos(p) ==
    CASE p = "L493" -> "L496"
      [] p = "L496" -> "L499"
      [] p = "L499" -> "L501"
      [] p = "L501" -> "L505"
      [] p = "L505" -> "L507"
      [] p = "L507" -> "L509"
      [] p = "L509" -> "L515"
      [] OTHER -> "done"

\* The call site of the stage operation named s.
SiteOf(s) ==
    CASE s = "bootstrap" -> "L493"
      [] s = "instrumentation" -> "L499"
      [] s = "profiling" -> "L501"
      [] s = "csinstrumentation" -> "L505"
      [] s = "csprofiling" -> "L507"
      [] OTHER -> "L509"

\* The wrapper as it would be without sys.exit(0).
AfterStageNoExit(s) == NextPos(SiteOf(s))

\* build_stage's wrapper after func returns: sys.exit(0) if self.args.stage
AfterStage(s) == IF args.stage # "" THEN "exit0" ELSE NextPos(SiteOf(s))

\* A call as it would be if its exception were swallowed.
AfterCallSwallow(ok) == "stage"

\* An external call returns, or raises and the exception propagates.
AfterCall(ok) == IF ok THEN "stage" ELSE "aborted"

\* A call site whose condition is false is passed over.
Skip ==
    /\ pc \in CallSites
    /\ ~RunsStage(pc)
    /\ pc' = NextPos(pc)
    /\ UNCHANGED <<args, ops, cur, todo, lsm, final, instrumented, common_cmake_defines,
                   pgo_targets, warnings, builders, built, merged, ctrace, trace>>

\* bootstrap() as it would be without `if self.args.pgo: ...append('compiler-rt')`.
bootstrap_without_rt ==
    /\ pc = "L493"
    /\ RunsStage(pc)
    /\ LET b0 == [NewBuilder("LLVMBootstrapBuilder", "bootstrap")
                    EXCEPT !.build_targets = <<"distribution">>,
                           !.ccache = ~args.no_ccache]
           b1 == configure_llvm_builder(b0, "bootstrap", "")
           b2 == IF args.bolt THEN [b1 EXCEPT !.projects = Append(@, "bolt")] ELSE b1
       IN /\ builders' = Append(builders, b2)
          /\ todo' = <<Call(b2, "check_dependencies"), Call(b2, "configure"), Call(b2, "build")>>
    /\ cur' = "bootstrap"
    /\ pc' = "stage"
    /\ ops' = Append(ops, "bootstrap")
    /\ trace' = Append(trace, Ev("begin", "bootstrap", "", ""))
    /\ UNCHANGED <<args, lsm, final, instrumented, common_cmake_defines, pgo_targets,
                   warnings, built, merged, ctrace>>

\* stages.bootstrap()
bootstrap ==
    /\ pc = "L493"
    /\ RunsStage(pc)
    /\ LET b0 == [NewBuilder("LLVMBootstrapBuilder", "bootstrap")
                    EXCEPT !.build_targets = <<"distribution">>,
                           !.ccache = ~args.no_ccache]
           b1 == configure_llvm_builder(b0, "bootstrap", "")
           b2 == IF args.bolt THEN [b1 EXCEPT !.projects = Append(@, "bolt")] ELSE b1
           b3 == IF args.pgo # <<>> THEN [b2 EXCEPT !.projects = Append(@, "compiler-rt")] ELSE b2
       IN /\ builders' = Append(builders, b3)
          /\ todo' = <<Call(b3, "check_dependencies"), Call(b3, "configure"), Call(b3, "build")>>
    /\ cur' = "bootstrap"
    /\ pc' = "stage"
    /\ ops' = Append(ops, "bootstrap")
    /\ trace' = Append(trace, Ev("begin", "bootstrap", "", ""))
    /\ UNCHANGED <<args, lsm, final, instrumented, common_cmake_defines, pgo_targets,
                   warnings, built, merged, ctrace>>

\* The call as it would be if update_defines() left the common map alone.
update_defines_noop ==
    /\ pc = "L496"
    /\ ops' = Append(ops, "update_defines")
    /\ pc' = NextPos(pc)
    /\ UNCHANGED <<args, cur, todo, lsm, final, instrumented, pgo_targets, warnings,
                   builders, built, merged, ctrace, trace, common_cmake_defines>>

\* stages.update_defines()
update_defines ==
    /\ pc = "L496"
    /\ common_cmake_defines' = UpdateDefines(common_cmake_defines, args.build_type)
    /\ ops' = Append(ops, "update_defines")
    /\ pc' = NextPos(pc)
    /\ UNCHANGED <<args, cur, todo, lsm, final, instrumented, pgo_targets, warnings,
                   builders, built, merged, ctrace, trace>>

\* stages.instrumentation() and stages.instrumentation(cspgo=True)
instrumentation(cspgo) ==
    /\ pc = (IF cspgo THEN "L505" ELSE "L499")
    /\ RunsStage(pc)
    /\ LET s == IF cspgo THEN "csinstrumentation" ELSE "instrumentation"
           b == setup_instrumentation(cspgo, s)
       IN /\ instrumented' = b
          /\ builders' = Append(builders, b)
          /\ todo' = <<Call(b, "configure"), Call(b, "build")>>
          /\ cur' = s
          /\ ops' = Append(ops, s)
          /\ trace' = Append(trace, Ev("begin", s, "", ""))
    /\ pc' = "stage"
    /\ UNCHANGED <<args, lsm, final, common_cmake_defines, pgo_targets, warnings,
                   built, merged, ctrace>>

\* profiling() as it would be without the construction of a missing instrumented Builder.
ProfilingInstrumentedNoSetup(cspgo, s) ==
    IF instrumented.cls # "None" THEN instrumented ELSE NewBuilder("None", s)

\* profiling(): self.instrumented if self.instrumented else self.setup_instrumentation(...)
ProfilingInstrumented(cspgo, s) ==
    IF instrumented.cls # "None" THEN instrumented ELSE setup_instrumentation(cspgo, s)

\* stages.profiling() and stages.profiling(cspgo=True)
profiling(cspgo) ==
    /\ pc = (IF cspgo THEN "L507" ELSE "L501")
    /\ RunsStage(pc)
    /\ LET s == IF cspgo THEN "csprofiling" ELSE "profiling"
           fresh == instrumented.cls = "None"
           inst == ProfilingInstrumented(cspgo, s)
           profiling_dir == ProfilingDir(cspgo)
           instrumentation_dir == InstrumentationDir(cspgo)
           has_llvm == Str("llvm") \in Range(args.pgo)
           l0 == configure_llvm_builder(NewBuilder(def_llvm_builder_cls, s),
                                        profiling_dir, instrumentation_dir)
           llvm_builder == IF ~args.full_toolchain /\ l0.tools.kind # "none"
                           THEN [l0 EXCEPT !.tools.clang_tblgen = "bootstrap",
                                           !.tools.llvm_tblgen = "bootstrap"]
                           ELSE l0
           rec == Reconcile(args.pgo)
           kernel_builder == [NewBuilder("LLVMKernelBuilder", s)
                                EXCEPT !.build = "linux",
                                       !.source = IF lsm THEN "linux" ELSE "None",
                                       !.toolchain_prefix = instrumentation_dir,
                                       !.matrix = KernelMatrix(rec.targets, inst)]
           made == (IF fresh THEN <<inst>> ELSE <<>>)
                   \o (IF has_llvm THEN <<llvm_builder>> ELSE <<>>)
                   \o (IF rec.targets # <<>> THEN <<kernel_builder>> ELSE <<>>)
           pgo_builders == (IF has_llvm THEN <<llvm_builder>> ELSE <<>>)
                           \o (IF rec.targets # <<>> THEN <<kernel_builder>> ELSE <<>>)
           calls(b) == (IF HasConfigure(b) THEN <<Call(b, "configure")>> ELSE <<>>)
                       \o <<Call(b, "build")>>
       IN /\ pgo_targets' = rec.targets
          /\ warnings' = warnings + rec.warned
          /\ builders' = builders \o made
          /\ todo' = (IF Len(pgo_builders) >= 1 THEN calls(pgo_builders[1]) ELSE <<>>)
                     \o (IF Len(pgo_builders) >= 2 THEN calls(pgo_builders[2]) ELSE <<>>)
                     \o <<Call(inst, "generate_profdata")>>
          /\ cur' = s
          /\ ops' = Append(ops, s)
          /\ trace' = Append(trace, Ev("begin", s, "", ""))
    /\ pc' = "stage"
    /\ UNCHANGED <<args, lsm, final, instrumented, common_cmake_defines, built, merged, ctrace>>

\* str.capitalize() of an --lto choice
Capitalize(w) == IF w = "thin" THEN "Thin" ELSE IF w = "full" THEN "Full" ELSE w

\* final_step as it would be without `final.tools = self.host_tools`.
FinalToolsKeep(f) == f.tools

\* The tools the final Builder is built with.
FinalTools(f) == IF args.build_stage1_only THEN HostTools ELSE f.tools

\* stages.final_step(), with the statement before it (lines 511-513)
final_step ==
    /\ pc = "L509"
    /\ RunsStage(pc)
    /\ \E deps_ok \in (IF args.build_stage1_only THEN BOOLEAN ELSE {TRUE}) :
        LET made_inst == args.pgo # <<>> /\ instrumented.cls = "None"
            inst == IF made_inst THEN setup_instrumentation(args.cspgo, "main")
                    ELSE instrumented
            f0 == [final EXCEPT !.build_targets = <<"all">>]
            f1 == configure_llvm_builder(f0, "final", "bootstrap")
            f2 == IF args.lto # ""
                  THEN [f1 EXCEPT !.cmake_defines =
                            DictSet(@, Str("LLVM_ENABLE_LTO"), Str(Capitalize(args.lto)))]
                  ELSE f1
            f3 == IF args.pgo # <<>> /\ inst.cls # "None" /\ inst.build # ""
                  THEN [f2 EXCEPT !.cmake_defines =
                            DictSet(@, Str("LLVM_PROFDATA_FILE"), ProfilePath(inst))]
                  ELSE f2
            f4 == IF args.build_stage1_only
                  THEN [f3 EXCEPT !.ccache = ~args.no_ccache,
                                  !.tools = FinalTools(f3),
                                  !.projects =
                                      IF args.bolt /\ ~("all" \in Range(@) \/ "bolt" \in Range(@))
                                      THEN Append(@, "bolt") ELSE @]
                  ELSE f3
            f5 == IF args.build_stage1_only /\ args.bolt
                  THEN [f4 EXCEPT !.tools.llvm_bolt = "final"]
                  ELSE f4
            f6 == IF args.bolt THEN [f5 EXCEPT !.bolt = TRUE] ELSE f5
            bolt_builder == [NewBuilder("LLVMKernelBuilder", "final")
                                EXCEPT !.build = "linux",
                                       !.source = IF lsm THEN "linux" ELSE "None",
                                       !.matrix = DictSet(EmptyDict, "defconfig",
                                            IF host_target_is_enabled(f6) THEN <<host_target>>
                                            ELSE SubSeq(f6.targets, 1, 1))]
        IN /\ instrumented' = inst
           /\ ops' = ops \o (IF made_inst THEN <<"setup_instrumentation">> ELSE <<>>)
                          \o <<"final_step">>
           /\ IF deps_ok
              THEN /\ final' = f6
                   /\ builders' = builders \o (IF made_inst THEN <<inst>> ELSE <<>>) \o <<f6>>
                                  \o (IF args.bolt THEN <<bolt_builder>> ELSE <<>>)
                   /\ todo' = <<Call(f6, "configure"), Call(f6, "build")>>
                   /\ pc' = "stage"
                   /\ trace' = Append(trace, Ev("begin", "final", "", ""))
              ELSE /\ final' = f3
                   /\ builders' = builders \o (IF made_inst THEN <<inst>> ELSE <<>>)
                   /\ todo' = <<>>
                   /\ pc' = "aborted"
                   /\ trace' = trace \o <<Ev("begin", "final", "", ""),
                                          Ev("fail", "final", "final", "check_dependencies")>>
    /\ cur' = "final"
    /\ UNCHANGED <<args, lsm, common_cmake_defines, pgo_targets, warnings, built, merged, ctrace>>

\* The next external call of the running stage operation: it returns or raises.
RunCall ==
    /\ pc = "stage"
    /\ todo # <<>>
    /\ \E ok \in BOOLEAN :
        LET c == Head(todo)
        IN /\ pc' = AfterCall(ok)
           /\ trace' = Append(trace, Ev(IF ok THEN "call" ELSE "fail", cur, c.dir, c.op))
           /\ built' = IF ok /\ c.op = "build" THEN built \cup {c.dir} ELSE built
           /\ merged' = IF ok /\ c.op = "generate_profdata" THEN merged \cup {c.dir} ELSE merged
    /\ todo' = Tail(todo)
    /\ UNCHANGED <<args, ops, cur, lsm, final, instrumented, common_cmake_defines, pgo_targets,
                   warnings, builders, ctrace>>

\* The stage operation returns into build_stage's wrapper.
StageReturn ==
    /\ pc = "stage"
    /\ todo = <<>>
    /\ pc' = AfterStage(cur)
    /\ trace' = Append(trace, Ev("end", cur, "", ""))
    /\ cur' = ""
    /\ UNCHANGED <<args, ops, todo, lsm, final, instrumented, common_cmake_defines, pgo_targets,
                   warnings, builders, built, merged, ctrace>>

\* print(f"Script duration: ...")
Finish ==
    /\ pc = "L515"
    /\ pc' = "done"
    /\ UNCHANGED <<args, ops, cur, todo, lsm, final, instrumented, common_cmake_defines,
                   pgo_targets, warnings, builders, built, merged, ctrace, trace>>

Next ==
    \/ Construct
    \/ Skip
    \/ bootstrap
    \/ update_defines
    \/ \E cspgo \in BOOLEAN : instrumentation(cspgo)
    \/ \E cspgo \in BOOLEAN : profiling(cspgo)
    \/ final_step
    \/ RunCall
    \/ StageReturn
    \/ Finish

Spec == Init /\ [][Next]_vars

\* The runs over longer lists of kernel workloads: two configurations, full and
\* slim, in any order and with repetitions, in full runs.
KernelPgoChoices ==
    {<<"kernel", c>> : c \in {"defconfig", "allmodconfig"}}
        \cup {<<"kernel", c, "slim">> : c \in {"defconfig", "allmodconfig"}}

KernelArgs ==
    {MkArgs(p, cs, FALSE, FALSE, FALSE, "", DefaultConfig) :
        p \in SeqsUpTo(KernelPgoChoices, MaxKernelPgoLen), cs \in BOOLEAN}

InitKernel ==
    /\ args \in KernelArgs
    /\ pc = "L490"
    /\ cur = ""
    /\ todo = <<>>
    /\ lsm = FALSE
    /\ final = NoBuilder
    /\ instrumented = NoBuilder
    /\ common_cmake_defines = EmptyDict
    /\ pgo_targets = <<>>
    /\ warnings = 0
    /\ builders = <<>>
    /\ built = {}
    /\ merged = {}
    /\ ctrace = <<>>
    /\ ops = <<>>
    /\ trace = <<>>

SpecKernel == InitKernel /\ [][Next]_vars

------------------------------------------------------------------------------
\* Vocabulary of the properties.

IsBegin(e) == e.ev = "begin"

\* The stage operations started so far, in order.
StagesBegun == LET b == SelectSeq(trace, IsBegin) IN [i \in 1..Len(b) |-> b[i].stage]

StageOrder ==
    <<"bootstrap", "instrumentation", "profiling", "csinstrumentation", "csprofiling", "final">>

\* Whether the run configuration asks for stage s at all.
Enabled(s) ==
    CASE s = "bootstrap" -> ~args.build_stage1_only
      [] s \in {"instrumentation", "profiling"} -> args.pgo # <<>>
      [] s \in {"csinstrumentation", "csprofiling"} -> args.pgo # <<>> /\ args.cspgo
      [] OTHER -> TRUE

EnabledOrder == SelectSeq(StageOrder, Enabled)

IsPrefix(a, b) == Len(a) <= Len(b) /\ SubSeq(b, 1, Len(a)) = a

Count(l, x) == Cardinality({i \in 1..Len(l) : l[i] = x})

\* The stage operation s has returned.
Ended(s) == \E i \in 1..Len(trace) : trace[i] = Ev("end", s, "", "")

\* The stage operation s has been started.
Began(s) == \E i \in 1..Len(trace) : trace[i] = Ev("begin", s, "", "")

\* The run ended without an exception.
EndedNormally == pc \in {"done", "exit0"}

\* Builders configured by configure_llvm_builder.
LLVMBuilders == {b \in Range(builders) : b.cls # "LLVMKernelBuilder"}

\* The stage build directories a Builder takes its compiler and tools from.
ToolchainDirs(b) ==
    {b.tools.dir, b.tools.clang_tblgen, b.tools.llvm_tblgen, b.toolchain_prefix} \ {""}

------------------------------------------------------------------------------
\* C1 (as stated): in every run with a non-empty stage field that ends without an
\* exception, exactly one stage operation has executed and the process ended by the
\* stage's exit.
C1_ExactlyOneStage ==
    (args.stage # "" /\ EndedNormally) => (Len(StagesBegun) = 1 /\ pc = "exit0")

\* C1 (amended): in a run with a non-empty stage field at most one stage operation
\* executes and it is the requested one; it executes exactly when the configuration
\* enables the requested stage; once it has returned the process has exited, and
\* nothing was done after it.
C1_AtMostOneStage ==
    args.stage # "" =>
        /\ Len(StagesBegun) <= 1
        /\ \A i \in 1..Len(StagesBegun) : StagesBegun[i] = args.stage
        /\ EndedNormally => Len(StagesBegun) = (IF Enabled(args.stage) THEN 1 ELSE 0)
        /\ pc = "done" => Len(StagesBegun) = 0
        /\ \A i \in 1..Len(trace) : trace[i].ev = "end" => (i = Len(trace) /\ pc = "exit0")

C1_Witness ==
    /\ args.stage = "csprofiling"
    /\ pc = "exit0"
    /\ StagesBegun = <<"csprofiling">>

\* C2 (as stated): the cs-instrumentation stage does nothing before the plain
\* instrumentation stage has returned in the same run, in every run.
C2_CsAfterInstrumentation ==
    \A i \in 1..Len(trace) :
        trace[i].stage = "csinstrumentation" =>
            \E j \in 1..(i - 1) : trace[j] = Ev("end", "instrumentation", "", "")

\* C2 (amended): in a run with an empty stage field, the cs-instrumentation stage
\* does nothing (header, configure, build) before the plain instrumentation stage
\* has returned in the same run.
C2_CsAfterInstrumentationFullRun ==
    args.stage = "" => C2_CsAfterInstrumentation

C2_Witness ==
    /\ args.stage = ""
    /\ \E i \in 1..Len(trace) : trace[i] = Ev("call", "csinstrumentation", "cspgo_instrumentation", "build")

\* The kernel workloads as requested, before the reconciliation.
RequestedKernel == KernelTargets(args.pgo)

IsSlim(t) == "slim" \in Range(t)

\* Configuration X is requested both full and slim.
Conflict(X) == Str(X) \in Range(RequestedKernel) /\ <<X, "slim">> \in Range(RequestedKernel)

ProfilingRuns == Count(StagesBegun, "profiling") + Count(StagesBegun, "csprofiling")

\* C3 (as stated): once profiling() has run, for every X requested both full and
\* slim a warning was recorded, the slim variant is gone and the full one is kept.
C3_SlimDropped ==
    ProfilingRuns >= 1 =>
        \A X \in KernelConfigs :
            Conflict(X) =>
                /\ warnings >= 1
                /\ <<X, "slim">> \notin Range(pgo_targets)
                /\ Str(X) \in Range(pgo_targets)

\* C3 (amended): once profiling() has run, every requested slim entry is kept, only
\* full entries have been removed, each removal recorded one warning, and at least
\* one was removed if some X is requested both full and slim; if X is the only such
\* configuration and its full form is requested once, the effective list holds
\* X-slim and not X.
C3_FullDropped ==
    ProfilingRuns >= 1 =>
        /\ Range(pgo_targets) \subseteq Range(RequestedKernel)
        /\ \A t \in Range(RequestedKernel) :
              IF IsSlim(t) THEN Count(pgo_targets, t) = Count(RequestedKernel, t)
              ELSE Count(pgo_targets, t) <= Count(RequestedKernel, t)
        /\ warnings = ProfilingRuns * (Len(RequestedKernel) - Len(pgo_targets))
        /\ (\E X \in KernelConfigs : Conflict(X)) => warnings >= 1
        /\ \A X \in KernelConfigs :
              (/\ Conflict(X)
               /\ Count(RequestedKernel, Str(X)) = 1
               /\ \A Y \in KernelConfigs \ {X} : ~Conflict(Y))
              => (Str(X) \notin Range(pgo_targets) /\ <<X, "slim">> \in Range(pgo_targets))

C3_Witness ==
    /\ args.pgo = << <<"kernel", "defconfig", "slim">>, <<"kernel", "defconfig">> >>
    /\ ProfilingRuns = 1
    /\ pgo_targets = << <<"defconfig", "slim">> >>
    /\ warnings = 1

FlagKeys == {Str("CMAKE_C_FLAGS"), Str("CMAKE_CXX_FLAGS")}

BuildTypeKey == Str("CMAKE_BUILD_TYPE")

PostBootstrapBuilders == {b \in LLVMBuilders : b.by # "bootstrap"}

\* C4 (as stated): the common map merged into a Builder is the same for every
\* stage of a run.
C4_CommonIdentical ==
    \A b1, b2 \in LLVMBuilders : b1.common = b2.common

\* C4 (amended): the bootstrap Builder is merged the map computed at construction;
\* update_defines then adds the two compiler-flag keys where absent and sets the
\* build-type key when build_type is given, changing nothing else; the resulting
\* map is what every later Builder is merged, and it does not change afterwards.
C4_FrozenAfterUpdate ==
    LET I == InitDefines(args)
    IN /\ \A b \in LLVMBuilders : b.by = "bootstrap" => b.common = I
       /\ \A b \in PostBootstrapBuilders :
            /\ b.common = common_cmake_defines
            /\ DOMAIN b.common =
                 (DOMAIN I) \cup FlagKeys \cup (IF args.build_type # "" THEN {BuildTypeKey} ELSE {})
            /\ \A k \in DOMAIN I :
                 (k # BuildTypeKey \/ args.build_type = "") => b.common[k] = I[k]
            /\ \A k \in FlagKeys \ DOMAIN I : b.common[k] = <<>>
            /\ args.build_type # "" => b.common[BuildTypeKey] = Str(args.build_type)

C4_Witness ==
    /\ pc = "done"
    /\ \E b1 \in LLVMBuilders, b2 \in PostBootstrapBuilders :
        /\ b1.by = "bootstrap"
        /\ BuildTypeKey \in DOMAIN b1.common
        /\ b1.common[BuildTypeKey] # b2.common[BuildTypeKey]

\* C5: with build_stage1_only, bootstrap() is never invoked and no Builder is
\* created by it, and while the final Builder is configured and built its tools
\* are the host tools, not tools from a stage directory.
C5_Stage1OnlyUsesHost ==
    args.build_stage1_only =>
        /\ ~Began("bootstrap")
        /\ \A b \in Range(builders) : b.by # "bootstrap"
        /\ (pc = "stage" /\ cur = "final") =>
              (final.tools.kind = "host" /\ final.tools.dir = "" /\ ToolchainDirs(final) = {})
        /\ \A b \in Range(builders) :
              b.build = "final" => (b.tools.kind = "host" /\ ToolchainDirs(b) = {})

C5_Witness ==
    /\ args.build_stage1_only
    /\ pc = "stage"
    /\ cur = "final"
    /\ todo = <<>>
    /\ "final" \in built

\* C6: in a run with an empty stage field the stage operations start in the fixed
\* order, restricted to the enabled ones; a stage starts only directly after the
\* previous one has returned, a stage returns only directly after its last external
\* call has returned, and a run that reaches the end has run every enabled stage.
C6_FixedOrder ==
    args.stage = "" =>
        /\ IsPrefix(StagesBegun, EnabledOrder)
        /\ \A i \in 1..Len(trace) :
              /\ trace[i].ev = "begin" => (i = 1 \/ trace[i - 1].ev = "end")
              /\ trace[i].ev = "end" =>
                    (i > 1 /\ trace[i - 1].ev = "call" /\ trace[i - 1].stage = trace[i].stage)
        /\ pc = "done" => StagesBegun = EnabledOrder

C6_Witness ==
    /\ args.stage = ""
    /\ pc = "done"
    /\ StagesBegun = StageOrder

\* C7: once an external call of a stage has failed the run is aborted and nothing
\* is done after it (no later call, no profile merge, no later stage), and no
\* external call is made twice on the same Builder in the same stage.
C7_FailureAborts ==
    /\ \A i \in 1..Len(trace) :
          trace[i].ev \in {"fail", "raise"} => (i = Len(trace) /\ pc = "aborted")
    /\ \A i, j \in 1..Len(trace) :
          (/\ i # j
           /\ trace[i].ev \in {"call", "fail"}
           /\ trace[j].ev \in {"call", "fail"})
          => <<trace[i].stage, trace[i].dir, trace[i].op>>
                # <<trace[j].stage, trace[j].dir, trace[j].op>>

C7_Witness ==
    /\ pc = "aborted"
    /\ trace[Len(trace)] = Ev("fail", "profiling", "linux", "build")
    /\ merged = {}
    /\ todo # <<>>

ProfileKey == Str("LLVM_PROFDATA_FILE")

FinalStarted == Began("final")

\* C8 (as stated): whenever the final stage has started with PGO requested, its
\* configuration holds the merged-profile path of the instrumented Builder and the
\* profiling stage of this run has merged that profile.
C8_ProfilePresent ==
    (FinalStarted /\ args.pgo # <<>>) =>
        /\ ProfileKey \in DOMAIN final.cmake_defines
        /\ final.cmake_defines[ProfileKey] = <<InstrumentationDir(args.cspgo), "profdata">>
        /\ InstrumentationDir(args.cspgo) \in merged

\* C8 (amended): whenever the final stage has started with PGO requested, its
\* configuration holds the merged-profile path of the instrumented Builder
\* (context-sensitive if cspgo); in a run with an empty stage field the profiling
\* stage of that variant, merge included, has completed before.
C8_ProfileConfigured ==
    (FinalStarted /\ args.pgo # <<>>) =>
        /\ ProfileKey \in DOMAIN final.cmake_defines
        /\ final.cmake_defines[ProfileKey] = <<InstrumentationDir(args.cspgo), "profdata">>
        /\ instrumented.cls # "None"
        /\ instrumented.build = InstrumentationDir(args.cspgo)
        /\ args.stage = "" =>
              /\ InstrumentationDir(args.cspgo) \in merged
              /\ Ended(IF args.cspgo THEN "csprofiling" ELSE "profiling")

C8_Witness ==
    /\ args.stage = ""
    /\ args.cspgo
    /\ args.pgo # <<>>
    /\ pc = "stage"
    /\ cur = "final"
    /\ final.cmake_defines[ProfileKey] = <<"cspgo_instrumentation", "profdata">>

C10_ProfilingAlone ==
    args.stage = "profiling" =>
        /\ instrumented.cls = "None"
        /\ \A i \in 1..Len(StagesBegun) : StagesBegun[i] = "profiling"
        /\ ~Began("final")
        /\ Began("profiling") =>
              /\ Len(builders) >= 2
              /\ builders[1].by = "profiling"
              /\ builders[1].cls = InstrumentedCls(FALSE, args.full_toolchain)
              /\ builders[1].build = "instrumentation"
              /\ builders[1].tools = StageTools("bootstrap")
              /\ builders[1].common = common_cmake_defines
              /\ \A i \in 2..Len(builders) :
                    builders[i].cls \in {def_llvm_builder_cls, "LLVMKernelBuilder"}
        /\ merged \subseteq {"instrumentation"}
        /\ Ended("profiling") => (pc = "exit0" /\ merged = {"instrumentation"})

C10_Witness ==
    /\ args.stage = "profiling"
    /\ pc = "exit0"
    /\ merged = {"instrumentation"}
    /\ "linux" \in built

\* The instrumentation and profiling directories, plain and context-sensitive.
PgoDirs == {"instrumentation", "cspgo_instrumentation", "profiling", "cspgo_profiling"}

PlainOps == <<"bootstrap", "update_defines", "final_step">>

\* C11: in a run with pgo empty, bolt false, build_stage1_only false and an empty
\* stage field, the methods called are bootstrap, update_defines, final_step in that
\* order and nothing else; a run that reaches the end has called all three; no
\* instrumentation or profiling stage runs, no instrumented Builder exists and no
\* Builder has an instrumentation or profiling directory as its build directory.
C11_PlainRun ==
    (args.pgo = <<>> /\ ~args.bolt /\ ~args.build_stage1_only /\ args.stage = "") =>
        /\ IsPrefix(ops, PlainOps)
        /\ IsPrefix(StagesBegun, <<"bootstrap", "final">>)
        /\ pc = "done" => (ops = PlainOps /\ StagesBegun = <<"bootstrap", "final">>)
        /\ instrumented = NoBuilder
        /\ merged = {}
        /\ \A b \in Range(builders) : b.build \notin PgoDirs
        /\ \A i \in 1..Len(trace) : trace[i].dir \notin PgoDirs

C11_Witness ==
    /\ args.pgo = <<>> /\ ~args.bolt /\ ~args.build_stage1_only /\ args.stage = ""
    /\ pc = "done"
    /\ ops = PlainOps
    /\ built = {"bootstrap", "final"}

LlvmOps == <<"bootstrap", "update_defines", "instrumentation", "profiling", "final_step">>

\* C12: in a run with pgo = [llvm], cspgo false and an empty stage field, the methods
\* called are bootstrap, update_defines, instrumentation, profiling, final_step in
\* that order and nothing else; profiling() constructs the llvm workload Builder only
\* (no kernel Builder), configures and builds it in the profiling directory and
\* merges the profiles; the final stage starts after that merge, with the merged
\* profile of the instrumentation directory in its configuration.
C12_LlvmOnlyRun ==
    (args.pgo = <<Str("llvm")>> /\ ~args.cspgo /\ args.stage = "") =>
        /\ IsPrefix(ops, LlvmOps)
        /\ pc = "done" => ops = LlvmOps
        /\ pgo_targets = <<>>
        /\ \A b \in Range(builders) :
              b.by = "profiling" => (b.cls = def_llvm_builder_cls /\ b.build = "profiling")
        /\ Began("profiling") =>
              Cardinality({i \in 1..Len(builders) : builders[i].by = "profiling"}) = 1
        /\ \A i \in 1..Len(trace) :
              (trace[i].stage = "profiling" /\ trace[i].ev \in {"call", "fail"}) =>
                  <<trace[i].dir, trace[i].op>> \in
                      {<<"profiling", "configure">>, <<"profiling", "build">>,
                       <<"instrumentation", "generate_profdata">>}
        /\ Began("final") =>
              /\ Ended("profiling")
              /\ "instrumentation" \in merged
              /\ ProfileKey \in DOMAIN final.cmake_defines
              /\ final.cmake_defines[ProfileKey] = <<"instrumentation", "profdata">>

C12_Witness ==
    /\ args.pgo = <<Str("llvm")>> /\ ~args.cspgo /\ args.stage = ""
    /\ pc = "done"
    /\ ops = LlvmOps
    /\ "profiling" \in built
    /\ merged = {"instrumentation"}

\* Project names LLVM_ENABLE_PROJECTS accepts.
KnownProjects == {"all", "bolt", "clang", "compiler-rt", "lld", "polly"}

InvalidTarget == args.targets # <<>> /\ validate_targets_raises(args.targets)

InvalidProject == \E p \in Range(args.projects) : p \notin KnownProjects

\* Construction has not returned: no stage operation has run and no Builder has
\* been configured.
NothingRan ==
    /\ pc \in {"L490", "aborted"}
    /\ ops = <<>>
    /\ builders = <<>>
    /\ \A i \in 1..Len(trace) : trace[i].ev = "raise"

\* C13 (as stated): with an invalid user-supplied target name or an invalid
\* user-supplied project name construction fails and no stage operation runs.
C13_InvalidNamesAbort ==
    (InvalidTarget \/ InvalidProject) => NothingRan

\* C13 (amended): with an invalid user-supplied target name construction fails, so
\* no stage operation runs; a user-supplied project list is not checked by
\* construction, which never fails on it and stores it in the final Builder as given.
C13_InvalidTargetAborts ==
    /\ InvalidTarget => NothingRan
    /\ \A i \in 1..Len(trace) : trace[i].ev = "raise" => trace[i].op # "projects"
    /\ (pc \notin {"L490", "aborted"} /\ args.projects # <<>>) =>
          IsPrefix(args.projects, final.projects)

C13_Witness ==
    /\ args.targets = <<"AArch64", "Bogus">>
    /\ pc = "aborted"
    /\ trace = <<Ev("raise", "", "", "validate_targets")>>
    /\ ctrace[Len(ctrace)] = "validate_targets"

\* Some --defines entry contains no '='.
MalformedDefine == \E i \in 1..Len(args.defines) : "=" \notin Range(args.defines[i])

\* C14: with a --defines entry that contains no '=' construction fails: no stage
\* operation runs, no Builder is configured and the common map holds nothing of the
\* entry; when nothing failed earlier, the step that fails is the one that reads
\* the defines.
C14_MalformedDefineAborts ==
    MalformedDefine =>
        /\ NothingRan
        /\ common_cmake_defines = EmptyDict
        /\ \A b \in Range(builders) \cup {final, instrumented} :
              b.cls # "None" => \A i \in 1..Len(args.defines) :
                                  Split1(args.defines[i])[1] \notin DOMAIN b.cmake_defines
        /\ (pc = "aborted" /\ args.llvm_folder = "" /\ args.linux_folder = ""
                /\ ~InvalidTarget) =>
              trace = <<Ev("raise", "", "", "defines")>>

C14_Witness ==
    /\ args.defines = << <<"LLVM_CCACHE_BUILD">> >>
    /\ pc = "aborted"
    /\ trace = <<Ev("raise", "", "", "defines")>>
    /\ ctrace[Len(ctrace)] = "defines"

ValidationSteps == {"linux_validate", "llvm_validate"}

\* C15: when the validation of a supplied source tree fails, construction has done
\* nothing but validate supplied trees before: no workload source was prepared, no
\* toolchain source downloaded or updated, no Builder constructed.
C15_ValidationFirst ==
    (pc = "aborted" /\ ctrace # <<>> /\ ctrace[Len(ctrace)] \in ValidationSteps) =>
        \A j \in 1..Len(ctrace) : ctrace[j] \in ValidationSteps

LtoKey == Str("LLVM_ENABLE_LTO")

\* The keys set in final_step only.
StageKeys == {LtoKey, ProfileKey}

\* The Builders of the bootstrap, instrumentation and profiling directories.
EarlierBuilders == {b \in LLVMBuilders : b.build # "final"}

\* The keys of the --defines entries.
UserKeys == {Split1(args.defines[i])[1] : i \in 1..Len(args.defines)}

\* C16 (as stated): the LTO key and the profile-file key are never in the common map
\* nor in the configuration of a bootstrap, instrumented or profiling Builder.
C16_StageKeysOnlyFinal ==
    /\ StageKeys \cap DOMAIN common_cmake_defines = {}
    /\ \A b \in EarlierBuilders : StageKeys \cap DOMAIN b.cmake_defines = {}

\* C16 (amended): the configuration of a bootstrap, instrumented or profiling Builder
\* is the common map it was merged, and the LTO key or the profile-file key is in the
\* common map only if a --defines entry has that key, with the value the
\* construction-time map gives it.
C16_StageKeysFromUser ==
    /\ \A k \in StageKeys \cap DOMAIN common_cmake_defines :
          k \in UserKeys /\ common_cmake_defines[k] = InitDefines(args)[k]
    /\ \A b \in EarlierBuilders :
          /\ b.cmake_defines = b.common
          /\ \A k \in StageKeys \cap DOMAIN b.cmake_defines :
                k \in UserKeys /\ b.cmake_defines[k] = InitDefines(args)[k]

C16_Witness ==
    /\ args.lto = "thin"
    /\ args.stage = ""
    /\ args.defines = <<>>
    /\ pc = "done"
    /\ StageKeys \subseteq DOMAIN final.cmake_defines
    /\ \E b \in EarlierBuilders : b.build = "profiling"
    /\ \E b \in EarlierBuilders : b.build = "bootstrap"

StageDirs == PgoDirs \cup {"bootstrap", "final"}

\* The stage operation a stage directory is named after.
OwnerOf(d) ==
    CASE d = "cspgo_instrumentation" -> "csinstrumentation"
      [] d = "cspgo_profiling" -> "csprofiling"
      [] OTHER -> d

\* C18 (as stated): no build directory, the kernel build directory included, is the
\* build directory of Builders created by two different stage operations.
C18_DirsUnshared ==
    \A b1, b2 \in Range(builders) : b1.build = b2.build => b1.by = b2.by

\* C18 (amended): every Builder builds in one of the six stage directories or in the
\* kernel build directory; a stage directory is the build directory of Builders
\* created by one stage operation only, in a run with an empty stage field the one
\* it is named after; the kernel build directory is used by the kernel Builders of
\* the profiling stages and of the final stage.
C18_StageDirsUnshared ==
    /\ \A b \in Range(builders) : b.build \in StageDirs \cup {"linux"}
    /\ \A b1, b2 \in Range(builders) :
          (b1.build = b2.build /\ b1.build \in StageDirs) => b1.by = b2.by
    /\ \A b \in Range(builders) :
          (args.stage = "" /\ b.build \in StageDirs) => b.by = OwnerOf(b.build)
    /\ \A b \in Range(builders) :
          b.build = "linux" <=> b.cls = "LLVMKernelBuilder"
    /\ \A b \in Range(builders) :
          b.build = "linux" => b.by \in {"profiling", "csprofiling", "final"}

C18_Witness ==
    /\ pc = "done"
    /\ \E b1, b2, b3 \in Range(builders) :
          /\ b1.build = "linux" /\ b1.by = "profiling"
          /\ b2.build = "linux" /\ b2.by = "csprofiling"
          /\ b3.build = "linux" /\ b3.by = "final"
    /\ \E b1, b2 \in Range(builders) :
          b1.build = "instrumentation" /\ b2.build = "cspgo_instrumentation"

\* BOLT is requested or some requested workload is of the kernel family.
WantsLinux == args.bolt \/ \E i \in 1..Len(args.pgo) : args.pgo[i][1] = "kernel"

BadLinuxFolders == {"missing", "no_makefile", "old"}

\* C19: when BOLT or a kernel workload is requested, the first step of construction
\* validates the supplied Linux tree or, when none is supplied, prepares the Linux
\* source; the final Builder is constructed after it and no Builder is configured
\* and no stage runs before it; with a supplied tree that is missing, is not a
\* kernel tree or is too old, construction fails in that first step.
C19_LinuxSourceFirst ==
    WantsLinux =>
        /\ ctrace # <<>> =>
              ctrace[1] = (IF args.linux_folder # "" THEN "linux_validate" ELSE "linux_prepare")
        /\ \A i \in 1..Len(ctrace) : ctrace[i] = "final_builder" => i > 1
        /\ (builders # <<>> \/ ops # <<>> \/ final.cls # "None") => (ctrace # <<>> /\ lsm)
        /\ args.linux_folder \in BadLinuxFolders =>
              /\ NothingRan
              /\ final = NoBuilder
              /\ pc = "aborted" =>
                    /\ ctrace = <<"linux_validate">>
                    /\ trace = <<Ev("raise", "", "", "linux_validate")>>

C19_Witness ==
    /\ ~args.bolt
    /\ WantsLinux
    /\ args.linux_folder = "old"
    /\ pc = "aborted"
    /\ ctrace = <<"linux_validate">>

\* C20: update_defines is called once in every run that goes on after the bootstrap
\* call site, directly after bootstrap when bootstrap runs and before any other
\* method; the bootstrap Builder's configuration is the construction-time map, so
\* the build-type key is in it only if a --defines entry has that key; every later
\* Builder is configured after update_defines and, when build_type is given, with
\* the build-type key equal to build_type.
C20_BuildTypePastBootstrap ==
    /\ \A i \in 1..Len(ops) :
          /\ ops[i] = "bootstrap" => i = 1
          /\ ops[i] = "update_defines" <=> i = Count(ops, "bootstrap") + 1
    /\ pc \in {"L499", "L501", "L505", "L507", "L509", "L515", "done"} =>
          Count(ops, "update_defines") = 1
    /\ \A b \in LLVMBuilders :
          b.by = "bootstrap" =>
              /\ b.cmake_defines = InitDefines(args)
              /\ BuildTypeKey \in DOMAIN b.cmake_defines => BuildTypeKey \in UserKeys
    /\ \A b \in PostBootstrapBuilders :
          /\ Count(ops, "update_defines") = 1
          /\ args.build_type # "" =>
                /\ BuildTypeKey \in DOMAIN b.cmake_defines
                /\ b.cmake_defines[BuildTypeKey] = Str(args.build_type)

C20_Witness ==
    /\ args.build_type = "Release"
    /\ args.stage = ""
    /\ pc = "done"
    /\ \E b \in LLVMBuilders :
          b.by = "bootstrap" /\ BuildTypeKey \notin DOMAIN b.cmake_defines
    /\ \E b \in PostBootstrapBuilders :
          b.by = "profiling" /\ b.cmake_defines[BuildTypeKey] = Str("Release")

\* C21: the step that runs update_defines leaves both compiler-flag keys in the
\* common map, each with the value it had before when it was there (the user's) and
\* empty otherwise; it adds no key but these two and, when build_type is given, the
\* build-type key, and it changes the value of no key but the build-type key.
C21_FlagKeysDefaulted ==
    [][pc = "L496" =>
        /\ FlagKeys \subseteq DOMAIN common_cmake_defines'
        /\ \A k \in FlagKeys :
              common_cmake_defines'[k] =
                  IF k \in DOMAIN common_cmake_defines THEN common_cmake_defines[k] ELSE <<>>
        /\ DOMAIN common_cmake_defines' =
              (DOMAIN common_cmake_defines) \cup FlagKeys
                  \cup (IF args.build_type # "" THEN {BuildTypeKey} ELSE {})
        /\ \A k \in (DOMAIN common_cmake_defines) \ {BuildTypeKey} :
              common_cmake_defines'[k] = common_cmake_defines[k]
        /\ \A k \in FlagKeys \cap UserKeys :
              common_cmake_defines'[k] = DictOf(args.defines)[k]]_vars

C21_Witness ==
    /\ args.defines = << <<"CMAKE_C_FLAGS", "=", "-O2">> >>
    /\ args.assertions
    /\ pc = "L499"
    /\ common_cmake_defines[Str("CMAKE_C_FLAGS")] = Str("-O2")
    /\ common_cmake_defines[Str("CMAKE_CXX_FLAGS")] = <<>>
    /\ common_cmake_defines[Str("LLVM_ENABLE_ASSERTIONS")] = Str("ON")

\* The part of a --defines entry before its first '=' and the part after it.
KeyOf(d) ==
    LET n == CHOOSE n \in 0..Len(d) :
                 /\ \A j \in 1..n : d[j] # "="
                 /\ (n < Len(d) => d[n + 1] = "=")
    IN SubSeq(d, 1, n)

ValueOf(d) == SubSeq(d, Len(KeyOf(d)) + 2, Len(d))

\* Construction has returned and update_defines has not run yet.
Constructed == pc \notin {"L490", "aborted"} \/ ops # <<>>

BeforeUpdate == Constructed /\ "update_defines" \notin Range(ops)

\* C22: at the end of construction, and until update_defines, the common map gives
\* the key of every --defines entry (the part before its first '=') the value of the
\* last entry with that key (all that follows its first '=', further '=' included),
\* also for a key the assertions flag or the vendor string had set; the other keys
\* are those of the assertions flag and the vendor string.
C22_UserDefinesLast ==
    BeforeUpdate =>
        /\ \A i \in 1..Len(args.defines) :
              /\ KeyOf(args.defines[i]) \in DOMAIN common_cmake_defines
              /\ (\A j \in (i + 1)..Len(args.defines) :
                      KeyOf(args.defines[j]) # KeyOf(args.defines[i]))
                  => common_cmake_defines[KeyOf(args.defines[i])] = ValueOf(args.defines[i])
        /\ \A k \in DOMAIN common_cmake_defines :
              (\A i \in 1..Len(args.defines) : KeyOf(args.defines[i]) # k) =>
                  \/ k = Str("LLVM_ENABLE_ASSERTIONS") /\ args.assertions
                        /\ common_cmake_defines[k] = Str("ON")
                  \/ k \in {Str("CLANG_VENDOR"), Str("LLD_VENDOR")}
                        /\ common_cmake_defines[k] = args.vendor_string
                        /\ args.vendor_string # <<>>

C22_Witness ==
    /\ args.defines = << <<"CLANG_VENDOR", "=", "Mine">>,
                         <<"LLVM_PARALLEL_LINK_JOBS", "=", "A", "=", "B">> >>
    /\ args.vendor_string = DefaultVendor
    /\ pc = "L493"
    /\ common_cmake_defines[Str("CLANG_VENDOR")] = Str("Mine")
    /\ common_cmake_defines[Str("LLD_VENDOR")] = DefaultVendor
    /\ common_cmake_defines[Str("LLVM_PARALLEL_LINK_JOBS")] = <<"A", "=", "B">>

\* Construction has returned and final_step has not run yet.
BeforeFinal == Constructed /\ "final_step" \notin Range(ops)

\* C23: the final Builder construction leaves has, for its targets and for its
\* projects independently, the user's list when one is given, with or without
\* full_toolchain; otherwise ['all'] under full_toolchain; otherwise the default of
\* the LLVM source; and its class is the full one exactly under full_toolchain.
C23_ResolutionPrecedence ==
    BeforeFinal =>
        /\ args.targets # <<>> => final.targets = args.targets
        /\ (args.targets = <<>> /\ args.full_toolchain) => final.targets = <<"all">>
        /\ (args.targets = <<>> /\ ~args.full_toolchain) => final.targets = default_targets
        /\ args.projects # <<>> => final.projects = args.projects
        /\ (args.projects = <<>> /\ args.full_toolchain) => final.projects = <<"all">>
        /\ (args.projects = <<>> /\ ~args.full_toolchain) => final.projects = default_projects
        /\ final.cls = (IF args.full_toolchain THEN "LLVMBuilder" ELSE "LLVMSlimBuilder")

C23_Witness ==
    /\ args.full_toolchain
    /\ args.targets = <<"X86">>
    /\ args.projects = <<>>
    /\ pc = "L493"
    /\ final.targets = <<"X86">>
    /\ final.projects = <<"all">>

\* The calls profiling() makes on its workload Builders, as <<directory, call>>.
WorkloadCalls(cspgo) ==
    (IF Str("llvm") \in Range(args.pgo)
     THEN {<<ProfilingDir(cspgo), "configure">>, <<ProfilingDir(cspgo), "build">>}
     ELSE {})
    \cup (IF RequestedKernel # <<>> THEN {<<"linux", "build">>} ELSE {})

\* Positions of the trace where stage s asks for the profile merge.
Merges(s) ==
    {i \in 1..Len(trace) :
        /\ trace[i].stage = s
        /\ trace[i].op = "generate_profdata"
        /\ trace[i].ev \in {"call", "fail"}}

\* C24: a profiling stage asks the instrumented Builder for the merge at most once,
\* and exactly once if it returns; when it does, every call on every requested
\* workload Builder has returned before, no call of the stage has failed, and the
\* stage makes no call after the merge.
C24_MergeAfterWorkloads ==
    \A s \in {"profiling", "csprofiling"} :
        /\ Cardinality(Merges(s)) <= 1
        /\ Ended(s) => Cardinality(Merges(s)) = 1
        /\ \A i \in Merges(s) :
              /\ trace[i].dir = InstrumentationDir(s = "csprofiling")
              /\ \A w \in WorkloadCalls(s = "csprofiling") :
                    \E j \in 1..(i - 1) : trace[j] = Ev("call", s, w[1], w[2])
              /\ \A j \in 1..Len(trace) :
                    (trace[j].stage = s /\ j # i /\ trace[j].ev \in {"call", "fail"}) =>
                        (j < i /\ trace[j].ev = "call"
                            /\ <<trace[j].dir, trace[j].op>> \in WorkloadCalls(s = "csprofiling"))

C24_Witness ==
    /\ args.pgo = <<Str("llvm"), <<"kernel", "defconfig">> >>
    /\ Ended("csprofiling")
    /\ merged = {"instrumentation", "cspgo_instrumentation"}
    /\ {"profiling", "cspgo_profiling", "linux"} \subseteq built

BootstrapBuilders == {b \in Range(builders) : b.by = "bootstrap"}

\* C25: the Builder bootstrap() configures builds the distribution targets in the
\* bootstrap directory with the host tools; bolt is among its projects exactly when
\* BOLT is requested and compiler-rt exactly when PGO is requested; it checks its
\* dependencies, configures and builds in that order; with build_stage1_only
\* bootstrap() is never called.
C25_BootstrapProjects ==
    /\ \A b \in BootstrapBuilders :
          /\ b.cls = "LLVMBootstrapBuilder"
          /\ b.build = "bootstrap"
          /\ b.build_targets = <<"distribution">>
          /\ b.tools = HostTools
          /\ "bolt" \in Range(b.projects) <=> args.bolt
          /\ "compiler-rt" \in Range(b.projects) <=> args.pgo # <<>>
    /\ Cardinality(BootstrapBuilders) = Count(ops, "bootstrap")
    /\ \A i \in 1..Len(trace) :
          (trace[i].stage = "bootstrap" /\ trace[i].ev \in {"call", "fail"}) =>
              /\ trace[i].dir = "bootstrap"
              /\ i \in 2..4
              /\ trace[i].op = <<"check_dependencies", "configure", "build">>[i - 1]
    /\ args.build_stage1_only =>
          /\ "bootstrap" \notin Range(ops)
          /\ "bootstrap" \notin built

C25_Witness ==
    /\ args.bolt
    /\ args.pgo # <<>>
    /\ "bootstrap" \in built
    /\ builders[1].by = "bootstrap"
    /\ {"bolt", "compiler-rt"} \subseteq Range(builders[1].projects)

\* C26: once profiling() has run, the kernel workload list holds no configuration
\* both in its full and in its slim form.
C26_NoConflictLeft ==
    ProfilingRuns >= 1 =>
        \A X \in KernelConfigs :
            ~(Str(X) \in Range(pgo_targets) /\ <<X, "slim">> \in Range(pgo_targets))

\* The instrumented build directory that goes with a profiling stage.
DirFor(s) == IF s = "csprofiling" THEN "cspgo_instrumentation" ELSE "instrumentation"

\* The instrumented Builder classes of a variant.
ClsFor(s) ==
    IF s = "csprofiling"
    THEN {"LLVMCSPGOInstrumentedBuilder", "LLVMSlimCSPGOInstrumentedBuilder"}
    ELSE {"LLVMInstrumentedBuilder", "LLVMSlimInstrumentedBuilder"}

IsInstrumentedCls(c) == c \in ClsFor("profiling") \cup ClsFor("csprofiling")

\* C27: for each profiling stage, plain and context-sensitive, in a full run or
\* alone: the Builder it asks for the merge is an instrumented Builder of its
\* variant with the variant's build directory; in a full run that Builder is
\* self.instrumented, alone it is one the stage constructed; and the workload
\* Builders the stage made take their toolchain from that same directory.
C27_VariantMatches ==
    \A s \in {"profiling", "csprofiling"} :
        /\ \A i \in Merges(s) : trace[i].dir = DirFor(s)
        /\ (pc = "stage" /\ cur = s) =>
              /\ \A i \in 1..Len(todo) :
                    todo[i].op = "generate_profdata" =>
                        (todo[i].cls \in ClsFor(s) /\ todo[i].dir = DirFor(s))
              /\ \E b \in Range(builders) :
                    /\ b.cls \in ClsFor(s)
                    /\ b.build = DirFor(s)
                    /\ b.by = (IF args.stage = "" THEN OwnerOf(DirFor(s)) ELSE s)
              /\ args.stage = "" => (instrumented.cls \in ClsFor(s) /\ instrumented.build = DirFor(s))
        /\ \A b \in Range(builders) :
              b.by = s =>
                  /\ IsInstrumentedCls(b.cls) => (b.cls \in ClsFor(s) /\ b.build = DirFor(s))
                  /\ b.cls = "LLVMKernelBuilder" => b.toolchain_prefix = DirFor(s)
                  /\ (~IsInstrumentedCls(b.cls) /\ b.cls # "LLVMKernelBuilder") =>
                        (b.tools.kind = "stage" /\ b.tools.dir = DirFor(s))

C27_Witness ==
    /\ args.stage = "csprofiling"
    /\ pc = "exit0"
    /\ merged = {"cspgo_instrumentation"}
    /\ \E b \in Range(builders) :
          b.cls = "LLVMKernelBuilder" /\ b.toolchain_prefix = "cspgo_instrumentation"
    /\ \E b \in Range(builders) :
          b.by = "csprofiling" /\ b.build = "cspgo_profiling"
              /\ b.tools.dir = "cspgo_instrumentation"

\* The value the last --defines entry with key k gives it.
UserValue(k) ==
    LET i == CHOOSE i \in 1..Len(args.defines) :
                 /\ KeyOf(args.defines[i]) = k
                 /\ \A j \in (i + 1)..Len(args.defines) : KeyOf(args.defines[j]) # k
    IN ValueOf(args.defines[i])

\* The merged profile of the instrumented Builder the run configuration selects.
SelectedProfile ==
    <<IF args.cspgo THEN "cspgo_instrumentation" ELSE "instrumentation", "profdata">>

\* C28 (as stated): once final_step has run, the final configuration holds the
\* profile-file key exactly when pgo is non-empty, and then with the profile of the
\* context-sensitive instrumented Builder exactly when cspgo is set.
C28_ProfileKeyIffPgo ==
    "final_step" \in Range(ops) =>
        /\ ProfileKey \in DOMAIN final.cmake_defines <=> args.pgo # <<>>
        /\ args.pgo # <<>> => final.cmake_defines[ProfileKey] = SelectedProfile

\* C28 (amended): once final_step has run with pgo non-empty, the final
\* configuration holds the profile-file key with the profile of the context-sensitive
\* instrumented Builder exactly when cspgo is set, of the plain one otherwise, also
\* in a run of the final stage alone, where the main script constructs that Builder;
\* with pgo empty final_step sets no profile-file key: the key is in the final
\* configuration only if a --defines entry has it, with that entry's value.
C28_ProfileKeyFromVariant ==
    "final_step" \in Range(ops) =>
        /\ args.pgo # <<>> =>
              /\ ProfileKey \in DOMAIN final.cmake_defines
              /\ final.cmake_defines[ProfileKey] = SelectedProfile
              /\ instrumented.cls \in ClsFor(IF args.cspgo THEN "csprofiling" ELSE "profiling")
              /\ args.stage = "final" =>
                    ops = <<"update_defines", "setup_instrumentation", "final_step">>
        /\ args.pgo = <<>> =>
              /\ instrumented = NoBuilder
              /\ ProfileKey \in DOMAIN final.cmake_defines =>
                    /\ ProfileKey \in UserKeys
                    /\ final.cmake_defines[ProfileKey] = UserValue(ProfileKey)

C28_Witness ==
    /\ args.stage = "final"
    /\ args.cspgo
    /\ args.pgo # <<>>
    /\ pc = "exit0"
    /\ final.cmake_defines[ProfileKey] = <<"cspgo_instrumentation", "profdata">>

\* No instrumentation or profiling stage has run and no instrumented Builder exists.
NoPgoWork ==
    /\ Range(ops) \subseteq {"bootstrap", "update_defines", "final_step"}
    /\ instrumented = NoBuilder
    /\ merged = {}
    /\ \A b \in Range(builders) : ~IsInstrumentedCls(b.cls) /\ b.build \notin PgoDirs

\* C29 (as stated): with cspgo set and pgo empty no instrumentation or profiling
\* stage runs, no instrumented Builder is constructed and the final configuration
\* has no profile-file key.
C29_NoProfileInput ==
    (args.cspgo /\ args.pgo = <<>>) =>
        /\ NoPgoWork
        /\ final.cls # "None" => ProfileKey \notin DOMAIN final.cmake_defines

\* C29 (amended): with cspgo set and pgo empty no instrumentation or profiling stage
\* runs, no instrumented Builder is constructed and final_step sets no profile-file
\* key: the final configuration has the key only if a --defines entry has it, with
\* that entry's value.
C29_CspgoWithoutPgo ==
    (args.cspgo /\ args.pgo = <<>>) =>
        /\ NoPgoWork
        /\ (final.cls # "None" /\ ProfileKey \in DOMAIN final.cmake_defines) =>
              /\ ProfileKey \in UserKeys
              /\ final.cmake_defines[ProfileKey] = UserValue(ProfileKey)

C29_Witness ==
    /\ args.cspgo
    /\ args.pgo = <<>>
    /\ args.stage = ""
    /\ args.defines = <<>>
    /\ pc = "done"
    /\ "final" \in built
    /\ ProfileKey \notin DOMAIN final.cmake_defines

\* C30: with build_type given and a --defines entry for the build-type key, the
\* bootstrap Builder is configured with the entry's value and every later Builder
\* with build_type, which the common map holds from update_defines on.
C30_BuildTypeOverridesDefine ==
    (args.build_type # "" /\ BuildTypeKey \in UserKeys) =>
        /\ \A b \in BootstrapBuilders :
              /\ BuildTypeKey \in DOMAIN b.cmake_defines
              /\ b.cmake_defines[BuildTypeKey] = UserValue(BuildTypeKey)
        /\ \A b \in PostBootstrapBuilders :
              /\ BuildTypeKey \in DOMAIN b.cmake_defines
              /\ b.cmake_defines[BuildTypeKey] = Str(args.build_type)
        /\ BeforeUpdate => common_cmake_defines[BuildTypeKey] = UserValue(BuildTypeKey)
        /\ "update_defines" \in Range(ops) =>
              common_cmake_defines[BuildTypeKey] = Str(args.build_type)

C30_Witness ==
    /\ args.build_type = "Release"
    /\ args.defines = << <<"CMAKE_BUILD_TYPE", "=", "Debug">> >>
    /\ pc = "done"
    /\ \E b \in BootstrapBuilders : b.cmake_defines[BuildTypeKey] = Str("Debug")
    /\ \E b \in PostBootstrapBuilders :
          b.by = "instrumentation" /\ b.cmake_defines[BuildTypeKey] = Str("Release")
    /\ final.cmake_defines[BuildTypeKey] = Str("Release")

KernelBuilders == {b \in Range(builders) : b.cls = "LLVMKernelBuilder"}

\* C31: every kernel Builder, the one profiling() makes for kernel workloads and the
\* one final_step() makes for BOLT, has the Linux source as its source and never
\* None: the Linux source manager exists, and the first step of construction
\* validated the supplied tree or prepared the default one.
C31_KernelSourceSet ==
    \A b \in KernelBuilders :
        /\ b.source = "linux"
        /\ lsm
        /\ ctrace # <<>>
        /\ ctrace[1] = (IF args.linux_folder # "" THEN "linux_validate" ELSE "linux_prepare")
        /\ args.linux_folder \in {"", "ok"}
        /\ b.by \in {"profiling", "csprofiling"} => RequestedKernel # <<>>
        /\ b.by = "final" => args.bolt

C31_Witness ==
    /\ args.linux_folder = "ok"
    /\ pc = "done"
    /\ \E b \in KernelBuilders : b.by = "profiling" /\ b.source = "linux"
    /\ \E b \in KernelBuilders : b.by = "final" /\ b.source = "linux"

====
